---------------------------- MODULE Spec2Model ----------------------------
(* EITViewer (src/EITViewer.ts): command-line options are turned into three *)
(* allow-lists, the input is piped to the TsStream demultiplexer, and the   *)
(* 'eit' and 'tot' handlers format each table and write it to the logger.   *)
(*                                                                          *)
(* JavaScript values are modelled as follows.  A string is the sequence of  *)
(* its character codes.  A number is a record [nan, val] so that NaN can    *)
(* sit in a list next to integers.  A Buffer is [type |-> "Buffer", data]   *)
(* and a string held in an object field is [type |-> "string", codes].      *)
(* An object is a record; a property that is absent is a missing field.     *)
EXTENDS Integers, Sequences, FiniteSets, TLC

VARIABLES
    pc,                 \* "start" | "running" | "ended" | "exit"
    options,            \* program.opts(): record with a field per given option
    hostOffset,         \* UTC offset (minutes) of the host's local timezone
    filterEitTypes,     \* string[]
    filterServiceIds,   \* number[]
    filterEventIds,     \* number[]
    piped,              \* readable.pipe(tsStream).pipe(writable) has been called
    log,                \* the writes the logger has received, in order
    emitted,            \* the tables tsStream has emitted so far, in order
    written,            \* the writes the last handler run made
    work,               \* eit.events as left by the last 'eit' handler run (edited in place)
    calls               \* TsDate invocations made by the last handler run

vars == <<pc, options, hostOffset, filterEitTypes, filterServiceIds,
          filterEventIds, piped, log, emitted, written, work, calls>>

\* Number of tables the demultiplexer emits from the input file.
MaxTables == 2

-----------------------------------------------------------------------------
(* Numbers and strings                                                      *)

Num(n) == [nan |-> FALSE, val |-> n]
NaN == [nan |-> TRUE, val |-> 0]

IsDigit(c) == c >= 48 /\ c <= 57
\* StrWhiteSpaceChar (the ones below U+0100)
IsWhiteSpace(c) == c \in {9, 10, 11, 12, 13, 32, 160}

\* Value of character code c as a digit of the given radix, -1 if it is none.
DigitValue(c, radix) ==
    LET v == IF IsDigit(c) THEN c - 48
             ELSE IF c >= 97 /\ c <= 122 THEN c - 87
             ELSE IF c >= 65 /\ c <= 90 THEN c - 55
             ELSE -1
    IN IF v >= 0 /\ v < radix THEN v ELSE -1

RECURSIVE SkipWhiteSpace(_)
SkipWhiteSpace(s) ==
    IF s # <<>> /\ IsWhiteSpace(Head(s)) THEN SkipWhiteSpace(Tail(s)) ELSE s

\* Value of the longest prefix of s made of digits of the radix; acc is the
\* value read so far and seen tells whether any digit was read.
RECURSIVE ReadDigits(_, _, _, _)
ReadDigits(s, radix, acc, seen) ==
    IF s # <<>> /\ DigitValue(Head(s), radix) >= 0
    THEN ReadDigits(Tail(s), radix, acc * radix + DigitValue(Head(s), radix), TRUE)
    ELSE [seen |-> seen, val |-> acc]

\* Mutant: Number(string)-like, a trailing non-digit makes the value NaN.
ParseIntStrict(str) ==
    LET r == ReadDigits(str, 10, 0, FALSE)
    IN IF r.seen /\ Len(str) > 0 /\ \A i \in 1..Len(str) : IsDigit(str[i])
       THEN Num(r.val) ELSE NaN

\* parseInt(string) with no radix argument.
ParseInt(str) ==
    LET s1 == SkipWhiteSpace(str)
        neg == s1 # <<>> /\ Head(s1) = 45
        s2 == IF s1 # <<>> /\ Head(s1) \in {43, 45} THEN Tail(s1) ELSE s1
        hex == Len(s2) >= 2 /\ s2[1] = 48 /\ s2[2] \in {120, 88}
        s3 == IF hex THEN Tail(Tail(s2)) ELSE s2
        r == ReadDigits(s3, IF hex THEN 16 ELSE 10, 0, FALSE)
    IN IF ~r.seen THEN NaN
       ELSE Num(IF neg THEN 0 - r.val ELSE r.val)

\* String.prototype.split(','): cur is the entry being read.
RECURSIVE SplitFrom(_, _)
SplitFrom(s, cur) ==
    IF s = <<>> THEN <<cur>>
    ELSE IF Head(s) = 44 THEN <<cur>> \o SplitFrom(Tail(s), <<>>)
    ELSE SplitFrom(Tail(s), Append(cur, Head(s)))

Split(s) == SplitFrom(s, <<>>)

\* Array.prototype.includes on a string[].
IncludesString(list, s) == \E i \in 1..Len(list) : list[i] = s

\* Array.prototype.includes (SameValueZero) on a number[], for an integer x.
IncludesNumber(list, x) == \E i \in 1..Len(list) : ~list[i].nan /\ list[i].val = x

\* Mutant: the upper end is included.
rangeInclusive(s, t) == {x \in {s + i : i \in 0..(t - s)} : x <= t}

\* range(s, t) of the source, for s <= t and step 1, as the set of its elements.
range(s, t) == {x \in {s + i : i \in 0..(t - s - 1)} : x < t}


-----------------------------------------------------------------------------
(* Buffers, String.fromCharCode, TsChar, TsDate, dayjs                      *)

Buf(bytes) == [type |-> "Buffer", data |-> bytes]
Str(codes) == [type |-> "string", codes |-> codes]

\* Buffer.prototype.compare(other) === 0
BufferEquals(a, b) == a.data = b.data

UNKNOWN_START_TIME == Buf(<<255, 255, 255, 255, 255>>)
UNKNOWN_DURATION == Buf(<<255, 255, 255>>)

\* The spread of a Buffer yields its bytes; the spread of a string yields its
\* one-character strings.
Spread(v) ==
    IF v.type = "Buffer"
    THEN [i \in 1..Len(v.data) |-> [type |-> "number", num |-> Num(v.data[i])]]
    ELSE [i \in 1..Len(v.codes) |-> [type |-> "string", codes |-> <<v.codes[i]>>]]

\* ToNumber of a number or of a one-character string.
ToNumber(v) ==
    IF v.type = "number" THEN v.num
    ELSE IF IsDigit(v.codes[1]) THEN Num(v.codes[1] - 48)
    ELSE IF IsWhiteSpace(v.codes[1]) THEN Num(0)
    ELSE NaN

ToUint16(n) == IF n.nan THEN 0 ELSE n.val % 65536

\* String.fromCharCode(...args)
FromCharCode(args) == Str([i \in 1..Len(args) |-> ToUint16(ToNumber(args[i]))])

\* new TsChar(buffer).decode(): the ARIB STD-B24 text of the bytes, kept symbolic.
TsCharDecode(buffer) == [type |-> "string", arib |-> buffer.data]

Bcd(byte) == (byte \div 16) * 10 + (byte % 16)

\* new TsDate(buffer).decodeTime(): the BCD triple of bytes 0..2.
DecodeTime(buffer) == <<Bcd(buffer.data[1]), Bcd(buffer.data[2]), Bcd(buffer.data[3])>>

\* The MJD to year/month/day formula of TsDate.decode() (ARIB STD-B10 annex),
\* in integer arithmetic; the truncations are those of "| 0" for mjd > 15078.
MjdToYmd(mjd) ==
    LET y1 == (mjd * 100 - 1507820) \div 36525
        yd == (y1 * 36525) \div 100
        m1 == ((mjd * 10 - 149561 - yd * 10) * 1000) \div 306001
        d == mjd - 14956 - yd - ((m1 * 306001) \div 10000)
        k == IF m1 \in {14, 15} THEN 1 ELSE 0
    IN <<y1 + k + 1900, m1 - 1 - k * 12, d>>

\* A Date is an instant: the day (numbered as an MJD) and second of the day
\* in UTC.  DateOf carries seconds over into days, as the Date constructor does.
DateOf(day, secs) == [day |-> day + (secs \div 86400), sec |-> secs % 86400]

\* new TsDate(buffer).decode(): new Date(y, m - 1, d, h, i, s), which reads the
\* civil fields in the host's timezone; (y, m, d) is the day numbered mjd.
Decode(buffer, host) ==
    LET mjd == buffer.data[1] * 256 + buffer.data[2]
    IN DateOf(mjd, Bcd(buffer.data[3]) * 3600 + Bcd(buffer.data[4]) * 60
                   + Bcd(buffer.data[5]) - host * 60)

\* dayjs(date).local().format(): 'YYYY-MM-DDTHH:mm:ssZ' in the host's timezone.
\* dayjs.tz.setDefault only sets the zone dayjs.tz() uses when it is given none.
LocalFormat(date, host) ==
    LET t == DateOf(date.day, date.sec + host * 60)
    IN [type |-> "string",
        date |-> MjdToYmd(t.day),
        time |-> <<t.sec \div 3600, (t.sec % 3600) \div 60, t.sec % 60>>,
        offset |-> host]

Infinity == [type |-> "number", inf |-> TRUE]
Seconds(n) == [type |-> "number", inf |-> FALSE, val |-> n]

\* delete obj._raw
DeleteRaw(obj) == [k \in DOMAIN obj \ {"_raw"} |-> obj[k]]

-----------------------------------------------------------------------------
(* The 'eit' handler                                                        *)

PRESENT == <<112, 114, 101, 115, 101, 110, 116>>                \* "present"
FOLLOWING == <<102, 111, 108, 108, 111, 119, 105, 110, 103>>    \* "following"
SCHEDULE == <<115, 99, 104, 101, 100, 117, 108, 101>>           \* "schedule"

\* eit.events == null
EventsIsNull(eit) == "events" \notin DOMAIN eit

\* range(0x50, 0x60).includes(eit.table_id) || eit.table_id === 0x4E
IsSelfStream(eit) == eit.table_id \in range(80, 96) \/ eit.table_id = 78

\* Mutant: the length test is dropped, so an empty list rejects everything.
ServiceIdRejectedNoLength(eit) == ~IncludesNumber(filterServiceIds, eit.service_id)

ServiceIdRejected(eit) ==
    Len(filterServiceIds) > 0 /\ ~IncludesNumber(filterServiceIds, eit.service_id)

\* Mutant: section_number decides the type for every table_id.
EitTypeBySection(eit) == IF eit.section_number = 0 THEN PRESENT ELSE FOLLOWING

EitType(eit) ==
    IF eit.table_id = 78
    THEN IF eit.section_number = 0 THEN PRESENT ELSE FOLLOWING
    ELSE SCHEDULE

EitTypeRejected(eit) ==
    Len(filterEitTypes) > 0 /\ ~IncludesString(filterEitTypes, EitType(eit))

\* The handler reaches its formatting loop.
ReachesLoop(eit) ==
    /\ ~EventsIsNull(eit)
    /\ IsSelfStream(eit)
    /\ ~ServiceIdRejected(eit)
    /\ ~EitTypeRejected(eit)

StartTimeIsUnknown(event) == BufferEquals(UNKNOWN_START_TIME, event.start_time)
\* Mutant: the duration is compared with the start-time sentinel.
DurationIsUnknownWrongSentinel(event) == BufferEquals(UNKNOWN_START_TIME, event.duration)

DurationIsUnknown(event) == BufferEquals(UNKNOWN_DURATION, event.duration)

FormatStartTime(event) ==
    IF StartTimeIsUnknown(event) THEN Infinity
    ELSE LocalFormat(Decode(event.start_time, hostOffset), hostOffset)

FormatDuration(event) ==
    IF DurationIsUnknown(event) THEN Infinity
    ELSE LET t == DecodeTime(event.duration)
         IN Seconds(t[1] * 3600 + t[2] * 60 + t[3])

FormatItem(item) ==
    [item EXCEPT !.item_description_char = TsCharDecode(@),
                 !.item_char = TsCharDecode(@)]

\* The body of the loop over event.descriptors.
FormatDescriptor(descriptor) ==
    LET d1 == DeleteRaw(descriptor)
        d2 == IF "ISO_639_language_code" \in DOMAIN d1
              THEN [d1 EXCEPT !.ISO_639_language_code = FromCharCode(Spread(@))]
              ELSE d1
        d3 == IF "text_char" \in DOMAIN d2
              THEN [d2 EXCEPT !.text_char = TsCharDecode(@)]
              ELSE d2
    IN IF d3.descriptor_tag = 77
       THEN [d3 EXCEPT !.event_name_char = TsCharDecode(@)]
       ELSE IF d3.descriptor_tag = 78
       THEN [d3 EXCEPT !.ISO_639_language_code = FromCharCode(Spread(@)),
                       !.items = [i \in 1..Len(@) |-> FormatItem(@[i])]]
       ELSE d3

\* The body of the loop over formattedEit.events, without the event-id test.
FormatEvent(event) ==
    [event EXCEPT !.start_time = FormatStartTime(event),
                  !.duration = FormatDuration(event),
                  !.descriptors = [i \in 1..Len(@) |-> FormatDescriptor(@[i])]]

\* The TsDate invocations the loop body makes for one event.
EventCalls(event) ==
    (IF StartTimeIsUnknown(event) THEN <<>>
     ELSE <<[fn |-> "decode", arg |-> event.start_time]>>)
    \o (IF DurationIsUnknown(event) THEN <<>>
        ELSE <<[fn |-> "decodeTime", arg |-> event.duration]>>)

RECURSIVE LoopCalls(_)
LoopCalls(events) ==
    IF events = <<>> THEN <<>> ELSE EventCalls(Head(events)) \o LoopCalls(Tail(events))

\* formattedEit after the loop: {...eit} without _raw, its events formatted.
FormattedEit(eit) ==
    [DeleteRaw(eit) EXCEPT !.events = [i \in 1..Len(@) |-> FormatEvent(@[i])]]

\* Mutant: every event has to be in the list.
IsTargetEventDetectedAll(eit) ==
    \A i \in 1..Len(eit.events) :
        Len(filterEventIds) > 0 /\ IncludesNumber(filterEventIds, eit.events[i].event_id)

\* isTargetEventDetected after the loop.
IsTargetEventDetected(eit) ==
    \E i \in 1..Len(eit.events) :
        Len(filterEventIds) > 0 /\ IncludesNumber(filterEventIds, eit.events[i].event_id)

\* The two returns after the loop.
EventIdRejected(eit) ==
    \/ Len(filterEventIds) > 0 /\ Len(eit.events) = 0
    \/ Len(filterEventIds) > 0 /\ ~IsTargetEventDetected(eit)

RULE == [fn |-> "log", arg |-> [text |-> "rule"]]

EitBanner(eit) ==
    [fn |-> "log",
     arg |-> [text |-> "EIT (Event Information Table)", type |-> EitType(eit),
              service_id |-> eit.service_id]]

Dir(obj) == [fn |-> "dir", arg |-> obj]

\* Mutant: the dump is written before the first rule.
EitBlockDumpFirst(eit) == <<EitBanner(eit), Dir(FormattedEit(eit)), RULE, RULE>>

\* The four logger calls that end the handler.
EitBlock(eit) == <<EitBanner(eit), RULE, Dir(FormattedEit(eit)), RULE>>

\* What one run of the handler writes.
EitWrites(eit) ==
    IF ReachesLoop(eit) /\ ~EventIdRejected(eit) THEN EitBlock(eit) ELSE <<>>

-----------------------------------------------------------------------------
(* The 'tot' handler                                                        *)

FormattedTot(tot) ==
    [DeleteRaw(tot) EXCEPT
        !.JST_time = LocalFormat(Decode(@, hostOffset), hostOffset)]

TOT_BANNER == [fn |-> "log", arg |-> [text |-> "TOT (Time Offset Table)"]]

\* Mutant: the type filter is applied to TOT as well.
TotBlockFiltered(tot) ==
    IF Len(filterEitTypes) > 0 THEN <<>>
    ELSE <<TOT_BANNER, RULE, Dir(FormattedTot(tot)), RULE>>

TotBlock(tot) == <<TOT_BANNER, RULE, Dir(FormattedTot(tot)), RULE>>

-----------------------------------------------------------------------------
(* Command lines, hosts and input files                                     *)

\* --eit-types: not given, "present", "following,schedule"
EitTypesArgs ==
    {[input |-> <<105>>],
     [input |-> <<105>>, eitTypes |-> PRESENT],
     [input |-> <<105>>, eitTypes |-> FOLLOWING \o <<44>> \o SCHEDULE]}

\* --service-ids: not given, "1x", "x,2"
ServiceIdsArgs ==
    {[input |-> <<105>>],
     [input |-> <<105>>, serviceIds |-> <<49, 120>>],
     [input |-> <<105>>, serviceIds |-> <<120, 44, 50>>]}

\* --event-ids: not given, "1", "x,3"
EventIdsArgs ==
    {[input |-> <<105>>],
     [input |-> <<105>>, eventIds |-> <<49>>],
     [input |-> <<105>>, eventIds |-> <<120, 44, 51>>]}

\* The option objects: every combination with --input, and one without it.
Options ==
    {a @@ b @@ c : a \in EitTypesArgs, b \in ServiceIdsArgs, c \in EventIdsArgs}
    \cup {[eitTypes |-> PRESENT]}

\* Asia/Tokyo and UTC hosts.
HostOffsets == {540, 0}

JPN == <<74, 80, 78>>
ENG == <<101, 110, 103>>

ShortEvent ==
    [descriptor_tag |-> 77, _raw |-> Buf(<<77>>), ISO_639_language_code |-> Buf(JPN),
     event_name_char |-> Buf(<<14, 78>>), text_char |-> Buf(<<14, 84>>)]

ExtendedEvent ==
    [descriptor_tag |-> 78, _raw |-> Buf(<<78>>), ISO_639_language_code |-> Buf(JPN),
     items |-> <<[item_description_char |-> Buf(<<14, 68>>), item_char |-> Buf(<<14, 73>>)]>>,
     text_char |-> Buf(<<>>)]

Component ==
    [descriptor_tag |-> 80, _raw |-> Buf(<<80>>), ISO_639_language_code |-> Buf(ENG),
     text_char |-> Buf(<<14, 67>>)]

Content == [descriptor_tag |-> 84, _raw |-> Buf(<<84>>)]

\* 2023-01-01 12:34:56 (MJD 59945), 01:30:00
EvA ==
    [event_id |-> 1, start_time |-> Buf(<<234, 41, 18, 52, 86>>),
     duration |-> Buf(<<1, 48, 0>>), descriptors |-> <<ShortEvent>>]

\* start time and duration undefined
EvB ==
    [event_id |-> 2, start_time |-> UNKNOWN_START_TIME,
     duration |-> UNKNOWN_DURATION, descriptors |-> <<ExtendedEvent>>]

\* start time undefined, 00:30:00
EvC ==
    [event_id |-> 3, start_time |-> UNKNOWN_START_TIME,
     duration |-> Buf(<<0, 48, 0>>), descriptors |-> <<Component, Content>>]

\* 2038-04-22 23:59:59 (MJD 65535), duration undefined
EvD ==
    [event_id |-> 4, start_time |-> Buf(<<255, 255, 35, 89, 89>>),
     duration |-> UNKNOWN_DURATION, descriptors |-> <<>>]

Eit(table_id, section_number, service_id, events) ==
    [table_id |-> table_id, section_number |-> section_number,
     service_id |-> service_id, events |-> events, _raw |-> Buf(<<table_id>>)]

\* A CRC-mismatch artefact: an EIT object without events.
BrokenEit(table_id, section_number, service_id) ==
    [table_id |-> table_id, section_number |-> section_number,
     service_id |-> service_id, _raw |-> Buf(<<table_id>>)]

\* <<table_id, section_number, service_id>>
EitHeaders ==
    {<<78, 0, 1>>, <<78, 0, 2>>, <<78, 1, 1>>, <<79, 0, 1>>, <<80, 0, 1>>,
     <<80, 0, 2>>, <<80, 1, 1>>, <<95, 0, 1>>, <<96, 0, 1>>}

EitRecords ==
    {Eit(h[1], h[2], h[3], <<EvA>>) : h \in EitHeaders}
    \cup {BrokenEit(h[1], h[2], h[3]) : h \in {<<78, 0, 1>>, <<80, 1, 1>>, <<96, 0, 1>>}}
    \cup {Eit(78, 0, 1, evs) : evs \in {<<>>, <<EvB>>, <<EvA, EvB>>, <<EvC, EvA>>, <<EvD>>}}
    \cup {Eit(81, 2, 2, evs) : evs \in {<<>>, <<EvB, EvC>>}}

TotRecords ==
    {[table_id |-> 115, JST_time |-> Buf(<<234, 41, 18, 52, 86>>), _raw |-> Buf(<<115>>)],
     [table_id |-> 115, JST_time |-> Buf(<<234, 41, 0, 0, 0>>), _raw |-> Buf(<<115>>)]}

-----------------------------------------------------------------------------
(* The program                                                              *)

Init ==
    /\ pc = "start"
    /\ options \in Options
    /\ hostOffset \in HostOffsets
    /\ filterEitTypes = <<>>
    /\ filterServiceIds = <<>>
    /\ filterEventIds = <<>>
    /\ piped = FALSE
    /\ log = <<>>
    /\ emitted = <<>>
    /\ written = <<>>
    /\ work = [ran |-> FALSE]
    /\ calls = <<>>

\* split(',').map(parseInt)
ParseIds(str) == LET parts == Split(str) IN [i \in 1..Len(parts) |-> ParseInt(parts[i])]

\* program.parse finds the required --input missing: commander reports it and exits.
MissingInput ==
    /\ pc = "start"
    /\ "input" \notin DOMAIN options
    /\ pc' = "exit"
    /\ UNCHANGED <<options, hostOffset, filterEitTypes, filterServiceIds,
                   filterEventIds, piped, log, emitted, written, work, calls>>

\* The top-level script from the option parsing to the first logger.log.
Startup ==
    /\ pc = "start"
    /\ "input" \in DOMAIN options
    /\ filterEitTypes' =
         IF "eitTypes" \in DOMAIN options THEN Split(options.eitTypes) ELSE <<>>
    /\ filterServiceIds' =
         IF "serviceIds" \in DOMAIN options THEN ParseIds(options.serviceIds) ELSE <<>>
    /\ filterEventIds' =
         IF "eventIds" \in DOMAIN options THEN ParseIds(options.eventIds) ELSE <<>>
    /\ piped' = TRUE
    /\ log' = Append(log, RULE)
    /\ pc' = "running"
    /\ UNCHANGED <<options, hostOffset, emitted, written, work, calls>>

\* tsStream emits 'eit' and the handler runs to completion.
OnEit ==
    /\ pc = "running"
    /\ Len(emitted) < MaxTables
    /\ \E eit \in EitRecords :
        /\ emitted' = Append(emitted, [kind |-> "eit", table |-> eit])
        /\ log' = log \o EitWrites(eit)
        /\ written' = EitWrites(eit)
        /\ work' = IF ReachesLoop(eit)
                   THEN [ran |-> TRUE, events |-> FormattedEit(eit).events]
                   ELSE [ran |-> FALSE]
        /\ calls' = IF ReachesLoop(eit) THEN LoopCalls(eit.events) ELSE <<>>
    /\ UNCHANGED <<pc, options, hostOffset, filterEitTypes, filterServiceIds,
                   filterEventIds, piped>>

\* tsStream emits 'tot' and the handler runs to completion.
OnTot ==
    /\ pc = "running"
    /\ Len(emitted) < MaxTables
    /\ \E tot \in TotRecords :
        /\ emitted' = Append(emitted, [kind |-> "tot", table |-> tot])
        /\ log' = log \o TotBlock(tot)
        /\ written' = TotBlock(tot)
        /\ calls' = <<[fn |-> "decode", arg |-> tot.JST_time]>>
    /\ work' = [ran |-> FALSE]
    /\ UNCHANGED <<pc, options, hostOffset, filterEitTypes, filterServiceIds,
                   filterEventIds, piped>>

\* The input stream is exhausted.
EndOfInput ==
    /\ pc = "running"
    /\ pc' = "ended"
    /\ UNCHANGED <<options, hostOffset, filterEitTypes, filterServiceIds,
                   filterEventIds, piped, log, emitted, written, work, calls>>

Next == MissingInput \/ Startup \/ OnEit \/ OnTot \/ EndOfInput

Spec == Init /\ [][Next]_vars

-----------------------------------------------------------------------------
(* Properties                                                               *)

Last == emitted[Len(emitted)]
LastIsEit == emitted # <<>> /\ Last.kind = "eit"
LastIsTot == emitted # <<>> /\ Last.kind = "tot"
Started == pc \in {"running", "ended"}

HasEventList(eit) == "events" \in DOMAIN eit
SelfStreamId(id) == (id >= 80 /\ id < 96) \/ id = 78
Accepted(eit) == HasEventList(eit) /\ SelfStreamId(eit.table_id)

IsEitBanner(w) == w.fn = "log" /\ w.arg.text = "EIT (Event Information Table)"

ExpectedType(eit) ==
    IF eit.table_id = 78 /\ eit.section_number = 0 THEN PRESENT
    ELSE IF eit.table_id = 78 THEN FOLLOWING
    ELSE SCHEDULE

InStringList(list, str) == \E i \in 1..Len(list) : list[i] = str
InNumberList(list, n) == \E i \in 1..Len(list) : list[i] = Num(n)

TypeSkips(eit) ==
    "eitTypes" \in DOMAIN options /\ ~InStringList(filterEitTypes, ExpectedType(eit))
ServiceSkips(eit) ==
    "serviceIds" \in DOMAIN options /\ ~InNumberList(filterServiceIds, eit.service_id)
PassedEarlier(eit) == Accepted(eit) /\ ~TypeSkips(eit) /\ ~ServiceSkips(eit)
SomeEventListed(eit) ==
    \E i \in 1..Len(eit.events) : InNumberList(filterEventIds, eit.events[i].event_id)

\* C1: when the 'eit' handler writes, the record has an event list and a
\* table_id in [0x50, 0x60) or equal to 0x4E; every EIT dump in the log is of
\* such a record.  So a record without event list or with another table_id
\* gets no write, whatever the filters.
EitBlocksOnlyForSelfStream ==
    /\ (LastIsEit /\ written # <<>>) => Accepted(Last.table)
    /\ \A i \in 1..Len(log) :
         IsEitBanner(log[i]) =>
            /\ i + 2 <= Len(log)
            /\ log[i + 2].fn = "dir"
            /\ Accepted(log[i + 2].arg)

\* No filter is configured; a first record was printed, the second one has an
\* event list and table_id 0x60 and nothing was written for it.
WitnessOtherTableIdSkipped ==
    /\ Len(emitted) = 2
    /\ DOMAIN options = {"input"}
    /\ emitted[1].kind = "eit" /\ Len(log) = 5
    /\ LastIsEit /\ HasEventList(Last.table) /\ Last.table.table_id = 96
    /\ written = <<>>

\* C2: the type in the banner of a printed EIT record, which is also the type
\* the configured type filter let pass, is present for table_id 0x4E with
\* section_number 0, following for 0x4E with any other section_number, and
\* schedule for any other accepted table_id whatever the section_number.
BannerShowsClassifiedType ==
    (LastIsEit /\ written # <<>>) =>
        /\ IsEitBanner(written[1])
        /\ written[1].arg.type = ExpectedType(Last.table)
        /\ "eitTypes" \in DOMAIN options =>
              InStringList(filterEitTypes, written[1].arg.type)

\* A record with table_id 0x50 and section_number 1 printed as schedule under
\* a type filter.
WitnessScheduleWithSection ==
    /\ LastIsEit /\ written # <<>>
    /\ Last.table.table_id = 80 /\ Last.table.section_number = 1
    /\ "eitTypes" \in DOMAIN options
    /\ written[1].arg.type = SCHEDULE

\* C3: an accepted EIT record whose type is not in a given --eit-types list,
\* or whose service_id is not in a given --service-ids list, gets no write;
\* a record that neither list rejects is printed when no --event-ids is
\* given, so an option that is not given rejects nothing.
AllowListsDecide ==
    (LastIsEit /\ Accepted(Last.table)) =>
        /\ TypeSkips(Last.table) => written = <<>>
        /\ ServiceSkips(Last.table) => written = <<>>
        /\ (~TypeSkips(Last.table) /\ ~ServiceSkips(Last.table)
              /\ "eventIds" \notin DOMAIN options) => written # <<>>

\* Only --service-ids is given: a first accepted record was printed and the
\* second accepted record, of a service not in the list, was skipped.
WitnessSkippedByServiceId ==
    /\ Len(emitted) = 2
    /\ DOMAIN options = {"input", "serviceIds"}
    /\ emitted[1].kind = "eit" /\ Accepted(emitted[1].table) /\ Len(log) = 5
    /\ LastIsEit /\ Accepted(Last.table) /\ ServiceSkips(Last.table)
    /\ written = <<>>

\* C4: for a record that passed the earlier filters, with --event-ids given
\* it is printed iff one of its events has a listed event_id, without it the
\* record is always printed; a printed record is dumped with all its events.
EventIdFilterIsPerRecord ==
    (LastIsEit /\ PassedEarlier(Last.table)) =>
        /\ "eventIds" \in DOMAIN options =>
              (written # <<>> <=> SomeEventListed(Last.table))
        /\ "eventIds" \notin DOMAIN options => written # <<>>
        /\ written # <<>> =>
              /\ Len(written) = 4
              /\ written[3].fn = "dir"
              /\ Len(written[3].arg.events) = Len(Last.table.events)
              /\ \A i \in 1..Len(Last.table.events) :
                    written[3].arg.events[i].event_id = Last.table.events[i].event_id

\* --event-ids is given and a record with two events, one of them not listed,
\* was printed.
WitnessUnlistedEventPrinted ==
    /\ LastIsEit /\ "eventIds" \in DOMAIN options
    /\ written # <<>>
    /\ Len(Last.table.events) = 2
    /\ \E i \in 1..2 : ~InNumberList(filterEventIds, Last.table.events[i].event_id)

\* C5: the 'tot' handler always writes one TOT block, so the log holds as
\* many TOT banners as TOT records were emitted, whatever the three filters.
TotAlwaysPrinted ==
    /\ LastIsTot =>
          /\ Len(written) = 4
          /\ written[1] = TOT_BANNER
          /\ written[3].fn = "dir"
          /\ written[3].arg.table_id = Last.table.table_id
    /\ Cardinality({i \in 1..Len(log) : log[i] = TOT_BANNER})
         = Cardinality({i \in 1..Len(emitted) : emitted[i].kind = "tot"})

\* All three filters are configured and a TOT block was written.
WitnessTotUnderAllFilters ==
    /\ {"eitTypes", "serviceIds", "eventIds"} \subseteq DOMAIN options
    /\ LastIsTot /\ Len(written) = 4

AllDigits(str) == str # <<>> /\ \A i \in 1..Len(str) : IsDigit(str[i])
WellFormedInteger(str) ==
    \/ AllDigits(str)
    \/ Len(str) > 1 /\ str[1] \in {43, 45} /\ AllDigits(Tail(str))
IdOptions == {"serviceIds", "eventIds"} \cap DOMAIN options
HasMalformedId ==
    \E name \in IdOptions :
        \E i \in 1..Len(Split(options[name])) : ~WellFormedInteger(Split(options[name])[i])

\* C6 as stated: with a malformed entry in --service-ids or --event-ids the
\* program stops before processing: nothing is piped, handled or written.
MalformedIdStopsProgram ==
    HasMalformedId =>
        /\ pc \in {"start", "exit"}
        /\ ~piped
        /\ emitted = <<>>
        /\ log = <<>>

RECURSIVE LeadingDecimal(_, _)
LeadingDecimal(str, acc) ==
    IF str # <<>> /\ IsDigit(Head(str))
    THEN LeadingDecimal(Tail(str), 10 * acc + Head(str) - 48)
    ELSE acc

\* C6 amended: only a missing --input stops the program.  Otherwise startup
\* completes (the stream is piped, the first rule is written) and every entry
\* of an identifier list is what parseInt makes of it: the value of its
\* leading decimal digits, or NaN when it is empty or starts with a letter.
MalformedIdIsParsedNotReported ==
    /\ pc = "exit" => "input" \notin DOMAIN options
    /\ Started =>
          /\ piped /\ log # <<>> /\ log[1] = RULE
          /\ \A name \in IdOptions :
                LET entries == Split(options[name])
                    list == IF name = "serviceIds" THEN filterServiceIds
                            ELSE filterEventIds
                IN /\ Len(list) = Len(entries)
                   /\ \A i \in 1..Len(entries) :
                         IF entries[i] = <<>> THEN list[i] = NaN
                         ELSE IF entries[i][1] >= 49 /\ entries[i][1] <= 57
                         THEN list[i] = Num(LeadingDecimal(entries[i], 0))
                         ELSE IF entries[i][1] >= 65 THEN list[i] = NaN
                         ELSE TRUE

\* --service-ids has a malformed entry and an EIT record was handled and printed.
WitnessPrintedDespiteMalformedId ==
    /\ "serviceIds" \in DOMAIN options /\ HasMalformedId
    /\ piped /\ LastIsEit /\ written # <<>>

\* C7 as stated: in a printed EIT record a start_time of FF FF FF FF FF is
\* shown as Infinity and any other as a timestamp string with the offset of
\* Asia/Tokyo (+09:00), on every host.
StartTimeShownInTokyoOffset ==
    (LastIsEit /\ written # <<>>) =>
        \A i \in 1..Len(Last.table.events) :
            LET raw == Last.table.events[i].start_time.data
                out == written[3].arg.events[i].start_time
            IN IF raw = <<255, 255, 255, 255, 255>> THEN out = Infinity
               ELSE out.type = "string" /\ out.offset = 540

\* The tables the handlers print.
Printed(t) ==
    \/ t.kind = "tot"
    \/ /\ PassedEarlier(t.table)
       /\ "eventIds" \in DOMAIN options => SomeEventListed(t.table)

\* C8: after the first rule the log is the blocks of the printed tables in
\* emission order, each block being banner, rule, dump of the formatted
\* record, rule; a skipped table adds nothing.
BlocksInEmissionOrder ==
    Started =>
        LET P == SelectSeq(emitted, Printed)
        IN /\ Len(log) = 1 + 4 * Len(P)
           /\ \A k \in 1..Len(P) :
                LET b == 4 * (k - 1) + 1
                    t == P[k].table
                IN /\ IF P[k].kind = "tot" THEN log[b + 1] = TOT_BANNER
                      ELSE /\ IsEitBanner(log[b + 1])
                           /\ log[b + 1].arg.service_id = t.service_id
                           /\ log[b + 1].arg.type = ExpectedType(t)
                   /\ log[b + 2] = RULE
                   /\ log[b + 3].fn = "dir"
                   /\ log[b + 3].arg =
                        (IF P[k].kind = "tot" THEN FormattedTot(t) ELSE FormattedEit(t))
                   /\ log[b + 4] = RULE

\* An EIT block followed by a TOT block.
WitnessEitThenTot ==
    /\ Len(emitted) = 2
    /\ emitted[1].kind = "eit" /\ emitted[2].kind = "tot"
    /\ Len(log) = 9
    /\ IsEitBanner(log[2]) /\ log[6] = TOT_BANNER

\* C9 as stated: every descriptor of a printed EIT record that carries a
\* 3-byte ISO_639_language_code, extended event descriptors included, shows
\* the string whose character codes are the bytes.
LanguageCodeShowsBytes ==
    (LastIsEit /\ written # <<>>) =>
        \A i \in 1..Len(Last.table.events) :
            \A j \in 1..Len(Last.table.events[i].descriptors) :
                LET raw == Last.table.events[i].descriptors[j]
                    out == written[3].arg.events[i].descriptors[j]
                IN ("ISO_639_language_code" \in DOMAIN raw
                      /\ Len(raw.ISO_639_language_code.data) = 3)
                   => out.ISO_639_language_code = Str(raw.ISO_639_language_code.data)

\* C10: no TsDate call of a handler run has the 5-byte or the 3-byte all-FF
\* value as its argument, and once the loop has run, every event whose
\* start_time (duration) is that value has start_time (duration) Infinity,
\* also when the record is then skipped by the event-id filter.
SentinelsNeverDecoded ==
    /\ \A k \in 1..Len(calls) :
          calls[k].arg.data \notin {<<255, 255, 255, 255, 255>>, <<255, 255, 255>>}
    /\ (LastIsEit /\ work.ran) =>
          \A i \in 1..Len(Last.table.events) :
              /\ Last.table.events[i].start_time.data = <<255, 255, 255, 255, 255>>
                    => work.events[i].start_time = Infinity
              /\ Last.table.events[i].duration.data = <<255, 255, 255>>
                    => work.events[i].duration = Infinity

\* A record with an undefined start_time and a defined duration was formatted
\* (the duration was decoded) and then skipped by the event-id filter.
WitnessSentinelInSkippedRecord ==
    /\ LastIsEit /\ work.ran /\ written = <<>>
    /\ \E i \in 1..Len(Last.table.events) :
          /\ Last.table.events[i].start_time.data = <<255, 255, 255, 255, 255>>
          /\ Last.table.events[i].duration.data # <<255, 255, 255>>
    /\ calls # <<>>

=============================================================================
